---------------------------- MODULE Spec2Model ----------------------------
(***************************************************************************)
(* Scene assembly and annotation of the microfossil viewer (main.js,       *)
(* labelUtils.js, controls.js and the seven fossil factories).             *)
(*                                                                         *)
(* The program runs on one thread: every handler (loadFossil, a checkbox   *)
(* change, a button click, an animation frame, the console diagnostic)     *)
(* runs to completion, so each is one action.  Pure operators over a       *)
(* "world" record w compute what a function of the source does to the      *)
(* program state; the actions install the resulting world.                 *)
(*                                                                         *)
(* Objects are named by handles <<kind, model, index>>.  Object3D.add /    *)
(* Object3D.remove act on direct children only, as in three.js.  The       *)
(* label render pass of the engine is modelled by its contract: it puts    *)
(* the overlay element of every label found in the scene hierarchy into    *)
(* the label renderer's element inside #model-container.                   *)
(***************************************************************************)
EXTENDS Naturals, Sequences, FiniteSets, TLC

VARIABLES
    fossilType,           \* main.js: let fossilType
    currentModel,         \* main.js: let currentModel (handle of the group, or Null)
    objects,              \* scene graph: handle -> [parent, visible]
    elements,             \* label overlay <div>s: label handle -> [attached, display, opacity]
    components,           \* group.userData.components: model number -> Seq(component)
    labels,               \* window.labels, the global label registry
    crossSectionEnabled,  \* main.js: let crossSectionEnabled
    clippingPlanes,       \* renderer.clippingPlanes
    toggles,              \* the checkboxes of #component-toggles
    fossilInfo,           \* what #fossil-info shows
    labelOps,             \* history: registry-wide label operations since the last load
    lastInfo              \* history: the document last given to updateFossilInfo

vars == <<fossilType, currentModel, objects, elements, components, labels,
          crossSectionEnabled, clippingPlanes, toggles, fossilInfo, labelOps,
          lastInfo>>

---------------------------------------------------------------------------
(* Bounds of the model *)

\* Model groups that can be alive at once (the old one during a swap, the new one).
MaxModels == 3
\* The user clicks the first MaxToggled checkboxes of the component list.
MaxToggled == 1
\* Label-to-camera distances (whole world units) the distance rule is checked for.
MaxDistance == 15
\* Headed blocks (a second-level heading and its body) per description document.
MaxBlocks == 3

---------------------------------------------------------------------------
(* Handles *)

Null == <<"null", 0, 0>>
Scene == <<"scene", 0, 0>>
Group(m) == <<"group", m, 0>>
LabelObj(m, i) == <<"label", m, i>>
ModelNumbers == 1..MaxModels

IsLabel(o) == o[1] = "label"
ModelOf(o) == o[2]

KnownTypes ==
    {"fusuline", "radiolarian", "foraminifera", "diatom", "conodont", "ostracod", "acritarch"}

\* The distances (world units) between the camera and the labels that a frame may see.
Distances == {5, 10, 15}

---------------------------------------------------------------------------
(* Scene graph (three.js Object3D as used by the sources) *)

Dom(f) == DOMAIN f

Range(seq) == {seq[i] : i \in 1..Len(seq)}

\* parent.add(object)
Object3DAdd(w, parent, o) ==
    [w EXCEPT !.objects =
        [x \in Dom(w.objects) \cup {o} |->
            IF x = o
            THEN [parent |-> parent,
                  visible |-> IF o \in Dom(w.objects) THEN w.objects[o].visible ELSE TRUE]
            ELSE w.objects[x]]]

\* parent.remove(object): only a direct child of parent is removed
Object3DRemove(w, parent, o) ==
    IF o \in Dom(w.objects) /\ w.objects[o].parent = parent
    THEN [w EXCEPT !.objects[o].parent = Null]
    ELSE w

RECURSIVE IsBelow(_, _, _)
\* o is root or a descendant of root
IsBelow(w, o, root) ==
    IF o = root THEN TRUE
    ELSE IF o \notin Dom(w.objects) THEN FALSE
    ELSE IF w.objects[o].parent = Null THEN FALSE
    ELSE IsBelow(w, w.objects[o].parent, root)

\* root.traverse(cb) restricted to the CSS2DObjects it visits
LabelsBelow(w, root) == {o \in Dom(w.objects) : IsLabel(o) /\ IsBelow(w, o, root)}

RECURSIVE SeqOfSet(_)
\* an enumeration of a finite set (traversal order; the callers are order-independent)
SeqOfSet(S) ==
    IF S = {} THEN <<>>
    ELSE LET x == CHOOSE y \in S : TRUE IN <<x>> \o SeqOfSet(S \ {x})

---------------------------------------------------------------------------
(* labelUtils.js *)

\* createLabel: a fresh <div class="fossil-label"> wrapped in a CSS2DObject
createLabel(w, l) ==
    [w EXCEPT
        !.objects = [x \in Dom(w.objects) \cup {l} |->
                        IF x = l THEN [parent |-> Null, visible |-> TRUE] ELSE w.objects[x]],
        !.elements = [x \in Dom(w.elements) \cup {l} |->
                        IF x = l THEN [attached |-> FALSE, display |-> "", opacity |-> ""]
                        ELSE w.elements[x]]]

\* addLabel that adds the label object below the mesh or group of its component
addLabelBelowComponent(w, parent, l, c) ==
    LET m == ModelOf(l)
        bound == w.components[m][c]
        node == IF bound.mesh # Null THEN bound.mesh
                ELSE IF bound.group # Null THEN bound.group ELSE parent
        w1 == createLabel(w, l)
        w2 == Object3DAdd(w1, node, l)
        w3 == [w2 EXCEPT !.labels = Append(@, l)]
    IN  [w3 EXCEPT !.components[m][c].labels = Append(@, l)]

\* addLabel(scene, labelsArray, text, position, component); the factories pass the
\* model group as "scene" and window.labels as labelsArray; c is the component's index
addLabel(w, parent, l, c) ==
    LET m == ModelOf(l)
        w1 == createLabel(w, l)
        w2 == Object3DAdd(w1, parent, l)
        w3 == [w2 EXCEPT !.labels = Append(@, l)]
    IN  [w3 EXCEPT !.components[m][c].labels = Append(@, l)]

\* element.parentNode.removeChild(element), guarded by "if (element.parentNode)"
DetachElement(w, l) ==
    IF l \in Dom(w.elements) /\ w.elements[l].attached
    THEN [w EXCEPT !.elements[l].attached = FALSE]
    ELSE w

RECURSIVE DetachEach(_, _)
\* seq.forEach(label => detach label.element)
DetachEach(w, seq) ==
    IF seq = <<>> THEN w ELSE DetachEach(DetachElement(w, Head(seq)), Tail(seq))

RECURSIVE SceneRemoveEach(_, _)
\* objectsToRemove.forEach(object => scene.remove(object))
SceneRemoveEach(w, seq) ==
    IF seq = <<>> THEN w
    ELSE SceneRemoveEach(Object3DRemove(w, Scene, Head(seq)), Tail(seq))

\* the .fossil-label elements inside window.labelContainer
AttachedLabels(w) == {l \in Dom(w.elements) : w.elements[l].attached}

\* removeAllLabels without "window.labels.length = 0"
removeAllLabelsKeepRegistry(w) ==
    LET objectsToRemove == SeqOfSet(LabelsBelow(w, Scene))
        w1 == SceneRemoveEach(w, objectsToRemove)
        w2 == DetachEach(w1, w1.labels)
    IN  DetachEach(w2, SeqOfSet(AttachedLabels(w2)))

\* removeAllLabels that clears the registry and leaves the overlay elements in place
removeAllLabelsNoDetach(w) ==
    LET objectsToRemove == SeqOfSet(LabelsBelow(w, Scene))
        w1 == SceneRemoveEach(w, objectsToRemove)
    IN  [w1 EXCEPT !.labels = <<>>]

\* removeAllLabels that splices the registry while iterating over it: every second
\* entry is skipped and stays registered
removeAllLabelsSkipping(w) ==
    LET objectsToRemove == SeqOfSet(LabelsBelow(w, Scene))
        w1 == SceneRemoveEach(w, objectsToRemove)
        odd == SelectSeq(w1.labels, LAMBDA l :
                   \E i \in 1..Len(w1.labels) : w1.labels[i] = l /\ i % 2 = 1)
        even == SelectSeq(w1.labels, LAMBDA l :
                   \E i \in 1..Len(w1.labels) : w1.labels[i] = l /\ i % 2 = 0)
        w2 == DetachEach(w1, odd)
    IN  [w2 EXCEPT !.labels = even]

\* removeAllLabels(scene)
removeAllLabels(w) ==
    LET objectsToRemove == SeqOfSet(LabelsBelow(w, Scene))
        w1 == SceneRemoveEach(w, objectsToRemove)
        w2 == DetachEach(w1, w1.labels)
        w3 == [w2 EXCEPT !.labels = <<>>]
    IN  DetachEach(w3, SeqOfSet(AttachedLabels(w3)))

\* the distance rule with the threshold itself counted as far
OpacityAtInclusive(distance) == IF distance >= 10 THEN "0.3" ELSE "1"

\* the opacity updateLabels gives a label at the given distance from the camera
OpacityAt(distance) == IF distance > 10 THEN "0.3" ELSE "1"

\* label.element.style of an entry without an overlay element raises a TypeError:
\* it leaves the forEach of updateLabels and the frame that called it
updateLabelsThrows(w, list) ==
    \E i \in 1..Len(list) : list[i] \in Dom(w.objects) /\ list[i] \notin Dom(w.elements)

RECURSIVE updateLabelsHiding(_, _, _)
\* updateLabels that hides the far labels instead of dimming them
updateLabelsHiding(w, list, distance) ==
    IF list = <<>> THEN w
    ELSE LET l == Head(list)
         IN  IF l \notin Dom(w.objects) THEN updateLabelsHiding(w, Tail(list), distance)
             ELSE IF l \notin Dom(w.elements) THEN w
             ELSE updateLabelsHiding(
                      [w EXCEPT !.elements[l].display =
                                    IF distance > 10 THEN "none" ELSE "block"],
                      Tail(list), distance)

RECURSIVE updateLabels(_, _, _)
\* updateLabels(labels, camera); distance is the label-to-camera distance of this
\* frame; an entry without object is skipped ("if (!label.object) return"), an entry
\* without element ends the pass with the TypeError
updateLabels(w, list, distance) ==
    IF list = <<>> THEN w
    ELSE LET l == Head(list)
         IN  IF l \notin Dom(w.objects) THEN updateLabels(w, Tail(list), distance)
             ELSE IF l \notin Dom(w.elements) THEN w
             ELSE updateLabels([w EXCEPT !.elements[l].opacity = OpacityAt(distance)],
                               Tail(list), distance)

---------------------------------------------------------------------------
(* The fossil factories *)

Part(name, kind) == [name |-> name, kind |-> kind]

\* the parts in the order in which each factory pushes their component records
PartsOf(type) ==
    CASE type = "fusuline" ->
           << Part("shell", "mesh"), Part("septa", "group"), Part("aperture", "mesh"),
              Part("chambers", "group"), Part("chomata", "group"), Part("tunnel", "group"),
              Part("cuniculus", "group"), Part("septalPores", "group") >>
      [] type = "radiolarian" ->
           << Part("skeleton", "group"), Part("capsule", "group"),
              Part("spines", "group"), Part("axopods", "group") >>
      [] type = "foraminifera" ->
           << Part("test", "group"), Part("chambers", "group"), Part("aperture", "mesh"),
              Part("pseudopodia", "group"), Part("symbiotic_algae", "group"),
              Part("pore_system", "group") >>
      [] type = "diatom" ->
           << Part("frustule", "mesh"), Part("ornaments", "group"),
              Part("chloroplasts", "group"), Part("raphe", "group") >>
      [] type = "conodont" ->
           \* createCusp calls createWhiteMatter before it pushes its own component
           << Part("body", "mesh"), Part("denticles", "group"), Part("whiteMatter", "mesh"),
              Part("cusp", "mesh"), Part("basalCavity", "mesh"), Part("growthLines", "group") >>
      [] type = "ostracod" ->
           << Part("carapace", "group"), Part("hinge", "mesh"), Part("appendages", "group"),
              Part("body", "mesh"), Part("muscleScars", "group"), Part("eyeSpots", "group") >>
      [] type = "acritarch" ->
           << Part("vesicle", "mesh"), Part("processes", "group"), Part("operculum", "mesh"),
              Part("interior", "mesh"), Part("wallUltrastructure", "group"),
              Part("surfaceOrnamentation", "group") >>
      [] OTHER -> <<>>

\* a component record stored with visible: false although its subtree is shown
ComponentHidden(m, i, part) ==
    LET subtree == <<part.kind, m, i>>
    IN  [name |-> part.name,
         mesh |-> IF part.kind = "mesh" THEN subtree ELSE Null,
         group |-> IF part.kind = "group" THEN subtree ELSE Null,
         visible |-> FALSE,
         labels |-> <<>>]

\* the component record a factory stores for part i of model m
Component(m, i, part) ==
    LET subtree == <<part.kind, m, i>>
    IN  [name |-> part.name,
         mesh |-> IF part.kind = "mesh" THEN subtree ELSE Null,
         group |-> IF part.kind = "group" THEN subtree ELSE Null,
         visible |-> TRUE,
         labels |-> <<>>]

\* group.add(subtree); group.userData.components.push(component)
AddComponent(w, m, i, part) ==
    LET w1 == IF part.kind \in {"mesh", "group"}
              THEN Object3DAdd(w, Group(m), <<part.kind, m, i>>)
              ELSE w
    IN  [w1 EXCEPT !.components[m] = Append(@, Component(m, i, part))]

\* createShell, createSepta, ...: the subtree, its component record, then its label
createPart(w, m, i, part) ==
    addLabel(AddComponent(w, m, i, part), Group(m), LabelObj(m, i), i)

RECURSIVE createParts(_, _, _, _)
createParts(w, m, i, parts) ==
    IF i > Len(parts) THEN w
    ELSE createParts(createPart(w, m, i, parts[i]), m, i + 1, parts)

RECURSIVE AddComponents(_, _, _, _)
AddComponents(w, m, i, parts) ==
    IF i > Len(parts) THEN w
    ELSE AddComponents(AddComponent(w, m, i, parts[i]), m, i + 1, parts)

RECURSIVE AddLabels(_, _, _, _)
AddLabels(w, m, i, parts) ==
    IF i > Len(parts) THEN w
    ELSE AddLabels(addLabel(w, Group(m), LabelObj(m, i), i), m, i + 1, parts)

\* new THREE.Group() with userData.components = []
NewGroup(w, m) ==
    LET w1 == Object3DAdd(w, Null, Group(m))
    IN  [w1 EXCEPT !.components =
            [x \in Dom(w.components) \cup {m} |-> IF x = m THEN <<>> ELSE w.components[x]]]

\* createDiatomModel stores the whole component list and adds the labels afterwards;
\* the other factories create part after part
createModel(w, m, type) ==
    IF type = "diatom"
    THEN AddLabels(AddComponents(NewGroup(w, m), m, 1, PartsOf(type)), m, 1, PartsOf(type))
    ELSE createParts(NewGroup(w, m), m, 1, PartsOf(type))

---------------------------------------------------------------------------
(* controls.js *)

\* a component is referred to by <<model number, index in userData.components>>
ComponentAt(w, ref) == w.components[ref[1]][ref[2]]

ComponentRefs(w, m) == [i \in 1..Len(w.components[m]) |-> <<m, i>>]

\* updateComponentToggles without "togglesContainer.innerHTML = ''": the checkboxes
\* of the earlier specimen stay in front of the new ones
updateComponentTogglesAppending(w, refs) ==
    [w EXCEPT !.toggles =
        @ \o [i \in 1..Len(refs) |->
                 [component |-> refs[i], checked |-> ComponentAt(w, refs[i]).visible]]]

\* updateComponentToggles(components): innerHTML = '' and one checkbox per component,
\* checked = component.visible, its change handler closed over the component
updateComponentToggles(w, refs) ==
    [w EXCEPT !.toggles =
        [i \in 1..Len(refs) |->
            [component |-> refs[i], checked |-> ComponentAt(w, refs[i]).visible]]]

RECURSIVE SetDisplayEach(_, _, _)
\* component.labels.forEach(label => label.element.style.display = value)
SetDisplayEach(w, seq, value) ==
    IF seq = <<>> THEN w
    ELSE SetDisplayEach([w EXCEPT !.elements[Head(seq)].display = value], Tail(seq), value)

\* toggleComponentVisibility that leaves the labels of the component alone
toggleComponentVisibilityNoLabels(w, ref, isVisible) ==
    LET c == ComponentAt(w, ref)
    IN  IF c.mesh # Null
        THEN [w EXCEPT !.objects[c.mesh].visible = isVisible,
                       !.components[ref[1]][ref[2]].visible = isVisible]
        ELSE IF c.group # Null
        THEN [w EXCEPT !.objects[c.group].visible = isVisible,
                       !.components[ref[1]][ref[2]].visible = isVisible]
        ELSE w

\* toggleComponentVisibility that hides the labels and never shows them again
toggleComponentVisibilityHideOnly(w, ref, isVisible) ==
    LET c == ComponentAt(w, ref)
        w1 == toggleComponentVisibilityNoLabels(w, ref, isVisible)
    IN  IF isVisible THEN w1 ELSE SetDisplayEach(w1, c.labels, "none")

\* toggleComponentVisibility that sets the display of every registered label
toggleComponentVisibilityAllLabels(w, ref, isVisible) ==
    SetDisplayEach(toggleComponentVisibilityNoLabels(w, ref, isVisible), w.labels,
                   IF isVisible THEN "block" ELSE "none")

\* toggleComponentVisibility(component, isVisible)
toggleComponentVisibility(w, ref, isVisible) ==
    LET c == ComponentAt(w, ref)
        w1 == IF c.mesh # Null
              THEN [w EXCEPT !.objects[c.mesh].visible = isVisible,
                             !.components[ref[1]][ref[2]].visible = isVisible]
              ELSE IF c.group # Null
              THEN [w EXCEPT !.objects[c.group].visible = isVisible,
                             !.components[ref[1]][ref[2]].visible = isVisible]
              ELSE w
    IN  SetDisplayEach(w1, c.labels, IF isVisible THEN "block" ELSE "none")

\* the change handler of checkbox i: the browser flips the box, then the handler runs
CheckboxChange(w, i) ==
    LET box == w.toggles[i]
        w1 == [w EXCEPT !.toggles[i].checked = ~box.checked]
    IN  toggleComponentVisibility(w1, box.component, ~box.checked)

---------------------------------------------------------------------------
(* main.js *)

\* objects that nothing reachable refers to any more are dropped (garbage)
LiveModels(w) ==
    {ModelOf(o) : o \in {x \in Dom(w.objects) : IsBelow(w, x, Scene) /\ x # Scene}}
    \cup {ModelOf(w.currentModel) : x \in IF w.currentModel = Null THEN {} ELSE {1}}
    \cup {ModelOf(w.labels[i]) : i \in 1..Len(w.labels)}
    \cup {ModelOf(l) : l \in AttachedLabels(w)}
    \cup {w.toggles[i].component[1] : i \in 1..Len(w.toggles)}

Collect(w) ==
    LET live == LiveModels(w)
    IN  [w EXCEPT
            !.objects = [o \in {x \in Dom(w.objects) : ModelOf(x) \in live} |-> w.objects[o]],
            !.elements = [l \in {x \in Dom(w.elements) : ModelOf(x) \in live} |-> w.elements[l]],
            !.components = [m \in Dom(w.components) \cap live |-> w.components[m]]]

\* model numbers no live object uses
FreeModels(w) ==
    {m \in ModelNumbers : m \notin Dom(w.components) /\ Group(m) \notin Dom(w.objects)}

\* A description document is the sequence of the elements of its markup, in document
\* order; all of them are siblings.  text is the element's text, em the text of the
\* <em> inside it ("" if there is none), chars the length of its markup.
Element(tag, text, em, chars) == [tag |-> tag, text |-> text, em |-> em, chars |-> chars]

Title(text) == Element("H3", text, "", 14)
Paragraph(text) == Element("P", text, "", 36)
Heading(text) == Element("H4", text, "", 20)
List(text) == Element("UL", text, "", 40)
\* <p><em>Data sourced from ...</em></p>
Citation(text) == Element("P", text, text, 35)

\* the documents the get<Type>Info functions return
InfoOf(type) ==
    IF type = "fusuline"
    THEN << Title(type), Paragraph("overview"),
            Heading("Key Features:"), List("features"),
            Heading("Geological Significance:"), Paragraph("significance") >>
    ELSE << Title(type), Paragraph("overview"),
            Heading("Key Features:"), List("features"),
            Heading("Geological Significance:"), Paragraph("significance"),
            Heading("Taxonomy & Classification:"), Paragraph("taxonomy"),
            Citation("source") >>

\* h.textContent.includes(phrase), for the heading texts that occur
Includes(text, phrase) ==
    CASE text = "Key Features:" -> phrase = "Key Features"
      [] text = "Geological Significance:" -> phrase = "Geological Significance"
      [] text = "Taxonomy & Classification:" -> phrase = "Taxonomy"
      [] OTHER -> FALSE

\* the first index of a set of indices, 0 if there is none (querySelector, find)
FirstIndex(S) == IF S = {} THEN 0 ELSE CHOOSE i \in S : \A j \in S : i <= j

\* doc.querySelector('h3')
QueryH3(doc) == FirstIndex({i \in 1..Len(doc) : doc[i].tag = "H3"})

\* doc.querySelector('h3 + p')
QueryH3PlusP(doc) ==
    FirstIndex({i \in 2..Len(doc) : doc[i].tag = "P" /\ doc[i - 1].tag = "H3"})

\* Array.from(doc.querySelectorAll('h4')).find(h => h.textContent.includes(phrase))
FindH4(doc, phrase) ==
    FirstIndex({i \in 1..Len(doc) : doc[i].tag = "H4" /\ Includes(doc[i].text, phrase)})

\* doc.querySelector('em'): the index of the element that holds the first <em>
QueryEm(doc) == FirstIndex({i \in 1..Len(doc) : doc[i].em # ""})

\* sourceEm.outerHTML
EmOf(e) == Element("EM", e.em, e.em, 30)

\* the heading's outerHTML, then "while (nextElement && nextElement.tagName !== 'H4')"
HeadingAndSiblings(doc, k) ==
    LET stop == FirstIndex({i \in (k + 1)..Len(doc) : doc[i].tag = "H4"})
    IN  SubSeq(doc, k, IF stop = 0 THEN Len(doc) ELSE stop - 1)

Section(id, title, content) == [id |-> id, title |-> title, content |-> content]

\* "const xH4 = ...find(...); if (xH4) { ...; sections.push({...}) }"
HeadingSection(doc, phrase, id, title) ==
    IF FindH4(doc, phrase) = 0 THEN <<>>
    ELSE << Section(id, title, HeadingAndSiblings(doc, FindH4(doc, phrase))) >>

\* createTabbedContent: the sections pushed before the source information is handled
SectionsFound(doc) ==
    (IF QueryH3PlusP(doc) = 0 THEN <<>>
     ELSE << Section("overview", "Overview", << doc[QueryH3PlusP(doc)] >>) >>)
    \o HeadingSection(doc, "Key Features", "features", "Features")
    \o HeadingSection(doc, "Geological Significance", "significance", "Significance")
    \o HeadingSection(doc, "Taxonomy", "taxonomy", "Taxonomy")

\* the sections with a "Source" section pushed whenever the document has an <em>
SectionsSourceAlways(doc) ==
    LET found == SectionsFound(doc)
    IN  IF QueryEm(doc) # 0
        THEN Append(found, Section("source", "Source", << EmOf(doc[QueryEm(doc)]) >>))
        ELSE found

\* createTabbedContent: the sections array when the tab markup is built
Sections(doc) ==
    LET found == SectionsFound(doc)
        last == Len(found)
    IN  IF QueryEm(doc) # 0 /\ last > 0
        THEN IF found[last].id = "taxonomy"
             THEN [found EXCEPT ![last].content = Append(@, EmOf(doc[QueryEm(doc)]))]
             ELSE Append(found, Section("source", "Source", << EmOf(doc[QueryEm(doc)]) >>))
        ELSE found

\* what #fossil-info holds: either the document as given (innerHTML = info) or the
\* tabbed markup: the title, one .info-tab per section and one .info-content per
\* section (its id is "tab-" + section.id), the first of each with class "active"
Verbatim(info) ==
    [tabbed |-> FALSE, verbatim |-> info, title |-> <<>>, tabs |-> <<>>, contents |-> <<>>]

\* createTabbedContent(htmlContent)
createTabbedContent(doc) ==
    LET sections == Sections(doc)
    IN  [tabbed |-> TRUE,
         verbatim |-> <<>>,
         title |-> IF QueryH3(doc) = 0 THEN <<>> ELSE << doc[QueryH3(doc)] >>,
         tabs |-> [i \in 1..Len(sections) |->
                     [id |-> sections[i].id, title |-> sections[i].title, active |-> i = 1]],
         contents |-> [i \in 1..Len(sections) |->
                     [id |-> sections[i].id, content |-> sections[i].content,
                      active |-> i = 1]]]

RECURSIVE TrimmedLength(_)
\* info.trim().length
TrimmedLength(doc) ==
    IF doc = <<>> THEN 0 ELSE Head(doc).chars + TrimmedLength(Tail(doc))

\* the test of updateFossilInfo with the title marker left out
IsSimpleMessageByLength(info) == TrimmedLength(info) < 50

\* info.trim().length < 50 || !info.includes('<h3>')
IsSimpleMessage(info) == TrimmedLength(info) < 50 \/ QueryH3(info) = 0

\* updateFossilInfo(info)
updateFossilInfo(w, info) ==
    [w EXCEPT !.fossilInfo =
        IF IsSimpleMessage(info) THEN Verbatim(info) ELSE createTabbedContent(info)]

\* the click listener with the two "remove('active')" loops left out
TabClickKeepingActive(w, i) ==
    LET panel == w.fossilInfo
        target == FirstIndex({k \in 1..Len(panel.contents) :
                                 panel.contents[k].id = panel.tabs[i].id})
    IN  [w EXCEPT !.fossilInfo =
            [panel EXCEPT
                !.tabs = [j \in 1..Len(panel.tabs) |->
                             [panel.tabs[j] EXCEPT !.active = (@ \/ j = i)]],
                !.contents = [k \in 1..Len(panel.contents) |->
                             [panel.contents[k] EXCEPT !.active = (@ \/ k = target)]]]]

\* the click listener of tab i: every tab and every content loses "active", the
\* clicked tab and document.getElementById("tab-" + its data-tab) get it
TabClick(w, i) ==
    LET panel == w.fossilInfo
        target == FirstIndex({k \in 1..Len(panel.contents) :
                                 panel.contents[k].id = panel.tabs[i].id})
    IN  [w EXCEPT !.fossilInfo =
            [panel EXCEPT
                !.tabs = [j \in 1..Len(panel.tabs) |->
                             [panel.tabs[j] EXCEPT !.active = (j = i)]],
                !.contents = [k \in 1..Len(panel.contents) |->
                             [panel.contents[k] EXCEPT !.active = (k = target)]]]]

\* the switch of loadFossil: a known type builds its model and takes its component
\* list and document; any other value leaves currentModel, components = [], info = ''
SwitchOnType(w, type, m) ==
    IF type \in KnownTypes
    THEN LET built == createModel(w, m, type)
         IN  [world |-> [built EXCEPT !.currentModel = Group(m)],
              components |-> ComponentRefs(built, m),
              info |-> InfoOf(type)]
    ELSE [world |-> w, components |-> <<>>, info |-> <<>>]

\* loadFossil without its call of removeAllLabels
loadFossilNoTeardown(w, type, m) ==
    LET w1 == IF w.currentModel # Null THEN Object3DRemove(w, Scene, w.currentModel) ELSE w
        w3 == [w1 EXCEPT !.crossSectionEnabled = FALSE,
                         !.clippingPlanes = <<>>,
                         !.fossilType = type]
        sw == SwitchOnType(w3, type, m)
        w4 == IF sw.world.currentModel # Null
              THEN Object3DAdd(sw.world, Scene, sw.world.currentModel)
              ELSE sw.world
        w5 == updateComponentToggles(w4, sw.components)
    IN  Collect(updateFossilInfo(w5, sw.info))

\* loadFossil(type); m is the identity of the group the factory allocates; its last
\* call, resetView(), moves the camera only
loadFossil(w, type, m) ==
    LET w1 == IF w.currentModel # Null THEN Object3DRemove(w, Scene, w.currentModel) ELSE w
        w2 == removeAllLabels(w1)
        w3 == [w2 EXCEPT !.crossSectionEnabled = FALSE,
                         !.clippingPlanes = <<>>,
                         !.fossilType = type]
        sw == SwitchOnType(w3, type, m)
        w4 == IF sw.world.currentModel # Null
              THEN Object3DAdd(sw.world, Scene, sw.world.currentModel)
              ELSE sw.world
        w5 == updateComponentToggles(w4, sw.components)
    IN  Collect(updateFossilInfo(w5, sw.info))

\* the calls of loadFossil with removeAllLabels moved behind the factory call
loadFossilCallsTeardownLast ==
    << "scene.remove", "resetCrossSection", "switch", "removeAllLabels",
       "scene.add", "updateComponentToggles", "updateFossilInfo", "resetView" >>

\* the calls the body of loadFossil makes, in program order
loadFossilCalls ==
    << "scene.remove", "removeAllLabels", "resetCrossSection", "switch",
       "scene.add", "updateComponentToggles", "updateFossilInfo", "resetView" >>

\* the locals of loadFossil next to the program state: let components = [], info = ''
loadFossilEntry(w) == [world |-> w, components |-> <<>>, info |-> <<>>]

\* one call of loadFossil's body, acting on the program state and the locals
loadFossilCall(f, call, type, m) ==
    CASE call = "scene.remove" ->
           [f EXCEPT !.world = IF f.world.currentModel # Null
                               THEN Object3DRemove(f.world, Scene, f.world.currentModel)
                               ELSE f.world]
      [] call = "removeAllLabels" ->
           [f EXCEPT !.world = removeAllLabels(f.world)]
      [] call = "resetCrossSection" ->
           [f EXCEPT !.world = [f.world EXCEPT !.crossSectionEnabled = FALSE,
                                               !.clippingPlanes = <<>>]]
      [] call = "switch" ->
           SwitchOnType([f.world EXCEPT !.fossilType = type], type, m)
      [] call = "scene.add" ->
           [f EXCEPT !.world = IF f.world.currentModel # Null
                               THEN Object3DAdd(f.world, Scene, f.world.currentModel)
                               ELSE f.world]
      [] call = "updateComponentToggles" ->
           [f EXCEPT !.world = updateComponentToggles(f.world, f.components)]
      [] call = "updateFossilInfo" ->
           [f EXCEPT !.world = updateFossilInfo(f.world, f.info)]
      [] OTHER -> f

RECURSIVE loadFossilRun(_, _, _, _)
\* the calls of the given list, one after the other
loadFossilRun(f, calls, type, m) ==
    IF calls = <<>> THEN f
    ELSE loadFossilRun(CHOOSE after \in {loadFossilCall(f, Head(calls), type, m)} : TRUE,
                       Tail(calls), type, m)

\* labelRenderer.render(scene, camera): every label in the scene hierarchy gets its
\* overlay element placed in the label renderer's element
RenderLabels(w) ==
    [w EXCEPT !.elements =
        [l \in Dom(w.elements) |->
            IF l \in LabelsBelow(w, Scene)
            THEN [w.elements[l] EXCEPT !.attached = TRUE]
            ELSE w.elements[l]]]

\* animate(): one frame
animate(w, distance) ==
    LET w1 == IF Len(w.labels) > 0 THEN updateLabels(w, w.labels, distance) ELSE w
    IN  IF Len(w.labels) > 0 /\ updateLabelsThrows(w, w.labels) THEN w1 ELSE RenderLabels(w1)

RECURSIVE FlipDisplayEach(_, _)
\* window.labels.forEach(label => display = display === 'none' ? 'block' : 'none')
FlipDisplayEach(w, seq) ==
    IF seq = <<>> THEN w
    ELSE LET l == Head(seq)
             value == IF w.elements[l].display = "none" THEN "block" ELSE "none"
         IN  FlipDisplayEach([w EXCEPT !.elements[l].display = value], Tail(seq))

\* toggleLabels()
toggleLabels(w) == FlipDisplayEach(w, w.labels)

\* toggleCrossSection that installs its plane (at constant 0 or 5) in either state
toggleCrossSectionKeepsPlane(w) ==
    LET w1 == [w EXCEPT !.crossSectionEnabled = ~w.crossSectionEnabled]
    IN  IF w.currentModel # Null THEN [w1 EXCEPT !.clippingPlanes = <<"y">>] ELSE w1

\* toggleCrossSection()
toggleCrossSection(w) ==
    LET enabled == ~w.crossSectionEnabled
        w1 == [w EXCEPT !.crossSectionEnabled = enabled]
    IN  IF w.currentModel # Null
        THEN [w1 EXCEPT !.clippingPlanes = IF enabled THEN <<"y">> ELSE <<>>]
        ELSE w1

\* window.checkForOrphanedLabels(): its effect on the program state
checkForOrphanedLabels(w) == removeAllLabels(w)

\* window.checkForOrphanedLabels(): the two counts it writes to the console before
\* the cleanup (.fossil-label elements in the document, window.labels.length)
checkForOrphanedLabelsLogged(w) == <<Cardinality(AttachedLabels(w)), Len(w.labels)>>

\* window.checkForOrphanedLabels(): its return value, remainingLabels.length, the
\* number of .fossil-label elements in the document after the cleanup
checkForOrphanedLabelsReturn(w) == Cardinality(AttachedLabels(removeAllLabels(w)))

---------------------------------------------------------------------------
(* The state machine *)

World ==
    [fossilType |-> fossilType, currentModel |-> currentModel, objects |-> objects,
     elements |-> elements, components |-> components, labels |-> labels,
     crossSectionEnabled |-> crossSectionEnabled, clippingPlanes |-> clippingPlanes,
     toggles |-> toggles, fossilInfo |-> fossilInfo]

WorldPrime ==
    [fossilType |-> fossilType', currentModel |-> currentModel', objects |-> objects',
     elements |-> elements', components |-> components', labels |-> labels',
     crossSectionEnabled |-> crossSectionEnabled', clippingPlanes |-> clippingPlanes',
     toggles |-> toggles', fossilInfo |-> fossilInfo']

Becomes(w) ==
    \E next \in {w} :
        /\ fossilType' = next.fossilType
        /\ currentModel' = next.currentModel
        /\ objects' = next.objects
        /\ elements' = next.elements
        /\ components' = next.components
        /\ labels' = next.labels
        /\ crossSectionEnabled' = next.crossSectionEnabled
        /\ clippingPlanes' = next.clippingPlanes
        /\ toggles' = next.toggles
        /\ fossilInfo' = next.fossilInfo

\* the module-level state of main.js before init() runs
Pristine ==
    [fossilType |-> "fusuline", currentModel |-> Null,
     objects |-> [o \in {Scene} |-> [parent |-> Null, visible |-> TRUE]],
     elements |-> <<>>, components |-> <<>>, labels |-> <<>>,
     crossSectionEnabled |-> FALSE, clippingPlanes |-> <<>>,
     toggles |-> <<>>, fossilInfo |-> Verbatim(<< Paragraph("placeholder") >>)]

\* init(): builds the scene and loads the initial fossil
Loaded == loadFossil(Pristine, Pristine.fossilType, CHOOSE m \in FreeModels(Pristine) : TRUE)

\* the variables hold world w
Holds(w) ==
    \E now \in {w} :
        /\ fossilType = now.fossilType
        /\ currentModel = now.currentModel
        /\ objects = now.objects
        /\ elements = now.elements
        /\ components = now.components
        /\ labels = now.labels
        /\ crossSectionEnabled = now.crossSectionEnabled
        /\ clippingPlanes = now.clippingPlanes
        /\ toggles = now.toggles
        /\ fossilInfo = now.fossilInfo

Init ==
    /\ Holds(Loaded)
    /\ labelOps = {}
    /\ lastInfo = InfoOf(Pristine.fossilType)

\* onFossilChange: the <select> offers the seven known types
LoadFossil ==
    \E type \in KnownTypes :
        /\ FreeModels(World) # {}
        /\ Becomes(loadFossil(World, type, CHOOSE m \in FreeModels(World) : TRUE))
        /\ labelOps' = {}
        /\ lastInfo' = InfoOf(type)

\* a change event of one of the component checkboxes
ToggleComponent ==
    \E i \in 1..Len(toggles) :
        /\ i <= MaxToggled
        /\ Becomes(CheckboxChange(World, i))
        /\ UNCHANGED <<labelOps, lastInfo>>

\* a click on "Toggle Labels"
ToggleLabels ==
    /\ Becomes(toggleLabels(World))
    /\ labelOps' = labelOps \cup {"toggleLabels"}
    /\ UNCHANGED lastInfo

\* a click on "Cross Section"
ToggleCrossSection ==
    /\ Becomes(toggleCrossSection(World))
    /\ UNCHANGED <<labelOps, lastInfo>>

\* an animation frame; the distance is where the user's orbiting left the camera
Frame ==
    \E distance \in Distances :
        /\ Becomes(animate(World, distance))
        /\ UNCHANGED <<labelOps, lastInfo>>

\* a click on "Reset View": resetView() moves the camera only, and the camera is the
\* engine's; the frames read its distance to the labels as an input
ResetView == UNCHANGED vars

\* the diagnostic called from the console
CheckForOrphanedLabels ==
    /\ Becomes(checkForOrphanedLabels(World))
    /\ labelOps' = labelOps \cup {"check"}
    /\ UNCHANGED lastInfo

Next ==
    \/ LoadFossil
    \/ ToggleComponent
    \/ ToggleLabels
    \/ ToggleCrossSection
    \/ Frame
    \/ ResetView
    \/ CheckForOrphanedLabels

Spec == Init /\ [][Next]_vars

---------------------------------------------------------------------------
(* Loads with a key the <select> does not offer *)

UnknownTypes == {"trilobite"}

\* loadFossil(type) reached with a key outside the seven cases of its switch
LoadUnknown ==
    \E type \in UnknownTypes :
        /\ FreeModels(World) # {}
        /\ Becomes(loadFossil(World, type, CHOOSE m \in FreeModels(World) : TRUE))
        /\ labelOps' = {}
        /\ lastInfo' = <<>>

NextAnyKey ==
    \/ LoadFossil
    \/ LoadUnknown
    \/ ToggleComponent
    \/ ToggleLabels
    \/ ToggleCrossSection
    \/ Frame
    \/ ResetView
    \/ CheckForOrphanedLabels

SpecAnyKey == Init /\ [][NextAnyKey]_vars

---------------------------------------------------------------------------
(* toggleComponentVisibility over the component shapes its branches distinguish *)

\* one component held as a mesh, one held as a group, one with neither reference
ShapeParts == << Part("node", "mesh"), Part("set", "group"), Part("bare", "none") >>

\* a model of these three parts, set up the way loadFossil sets up a factory's model
ShapesLoaded ==
    LET m == CHOOSE x \in FreeModels(Pristine) : TRUE
        built == createParts(NewGroup(Pristine, m), m, 1, ShapeParts)
        w1 == [built EXCEPT !.currentModel = Group(m), !.fossilType = "shapes"]
        w2 == Object3DAdd(w1, Scene, Group(m))
    IN  updateFossilInfo(updateComponentToggles(w2, ComponentRefs(w2, m)), <<>>)

InitShapes ==
    /\ Holds(ShapesLoaded)
    /\ labelOps = {}
    /\ lastInfo = <<>>

\* a change event of any of the checkboxes
ToggleAnyComponent ==
    \E i \in 1..Len(toggles) :
        /\ Becomes(CheckboxChange(World, i))
        /\ UNCHANGED <<labelOps, lastInfo>>

NextShapes ==
    \/ ToggleAnyComponent
    \/ ToggleLabels
    \/ ToggleCrossSection
    \/ Frame
    \/ ResetView
    \/ CheckForOrphanedLabels

SpecShapes == InitShapes /\ [][NextShapes]_vars

---------------------------------------------------------------------------
(* updateLabels over label lists with entries that lack their object or element *)

\* the loaded model of ShapesLoaded with the 3D objects of the labels in noObject and
\* the overlay elements of the labels in noElement missing from their registry entries
WithoutParts(w, noObject, noElement) ==
    [w EXCEPT
        !.objects = [o \in Dom(w.objects) \ noObject |-> w.objects[o]],
        !.elements = [l \in Dom(w.elements) \ noElement |-> w.elements[l]]]

InitLabelLists ==
    \E noObject \in SUBSET Range(ShapesLoaded.labels) :
        \E noElement \in SUBSET Range(ShapesLoaded.labels) :
            /\ Holds(WithoutParts(ShapesLoaded, noObject, noElement))
            /\ labelOps = {}
            /\ lastInfo = <<>>

NextLabelLists ==
    \/ Frame
    \/ ToggleCrossSection
    \/ ResetView

SpecLabelLists == InitLabelLists /\ [][NextLabelLists]_vars

---------------------------------------------------------------------------
(* updateFossilInfo over description documents, and the tabs it renders.  The tab  *)
(* clicks touch #fossil-info only and are left out of the other specifications.    *)

\* the headed blocks a document is composed of; "other" has a heading that none of
\* the three phrases of createTabbedContent occurs in
BlockNames == {"features", "significance", "taxonomy", "other"}

Block(name) ==
    CASE name = "features" -> << Heading("Key Features:"), List("3 items") >>
      [] name = "significance" -> << Heading("Geological Significance:"),
                                     Paragraph("significance") >>
      [] name = "taxonomy" -> << Heading("Taxonomy & Classification:"),
                                 Paragraph("taxonomy") >>
      [] OTHER -> << Heading("Habitat:"), Paragraph("habitat") >>

\* up to MaxBlocks different blocks in any order
BlockOrders ==
    UNION {{order \in [1..n -> BlockNames] :
               \A i, j \in 1..n : order[i] = order[j] => i = j} : n \in 0..MaxBlocks}

RECURSIVE Blocks(_)
Blocks(order) == IF order = <<>> THEN <<>> ELSE Block(Head(order)) \o Blocks(Tail(order))

\* a document: optional title, optional first paragraph, blocks, optional citation
Compose(title, overview, order, citation) ==
    (IF title THEN << Title("title") >> ELSE <<>>)
    \o (IF overview THEN << Paragraph("overview") >> ELSE <<>>)
    \o Blocks(order)
    \o (IF citation THEN << Citation("source") >> ELSE <<>>)

Documents ==
    {Compose(title, overview, order, citation) :
        title \in BOOLEAN, overview \in BOOLEAN, order \in BlockOrders, citation \in BOOLEAN}

\* updateFossilInfo(info) with any of the documents
RenderDescription ==
    \E info \in Documents :
        /\ Becomes(updateFossilInfo(World, info))
        /\ lastInfo' = info
        /\ UNCHANGED labelOps

\* a click on one of the tabs updateFossilInfo attached its listener to
ClickTab ==
    \E i \in 1..Len(fossilInfo.tabs) :
        /\ Becomes(TabClick(World, i))
        /\ UNCHANGED <<labelOps, lastInfo>>

NextDocuments ==
    \/ RenderDescription
    \/ ClickTab

SpecDocuments == Init /\ [][NextDocuments]_vars

---------------------------------------------------------------------------
(* Vocabulary of the properties *)

\* the component list of the model that is loaded
CurrentComponents(w) ==
    IF w.currentModel = Null THEN <<>> ELSE w.components[ModelOf(w.currentModel)]

\* the overlay element is shown: its display style is not 'none'
Displayed(w, l) == w.elements[l].display # "none"

\* the visible flag of the subtree the component refers to equals component.visible
SubtreeAgrees(w, c) ==
    /\ c.mesh # Null => w.objects[c.mesh].visible = c.visible
    /\ (c.mesh = Null /\ c.group # Null) => w.objects[c.group].visible = c.visible

\* every label bound to the component is displayed iff component.visible
LabelsAgree(w, c) ==
    \A k \in 1..Len(c.labels) : Displayed(w, c.labels[k]) <=> c.visible

ComponentConsistent(w, c) == SubtreeAgrees(w, c) /\ LabelsAgree(w, c)

AllConsistent(w) ==
    \A i \in 1..Len(CurrentComponents(w)) : ComponentConsistent(w, CurrentComponents(w)[i])

NamesDistinct(comps) ==
    \A i, j \in 1..Len(comps) : comps[i].name = comps[j].name => i = j

\* the labels the factory of the loaded specimen registers, in creation order
FactoryLabels(w) ==
    [i \in 1..Len(PartsOf(w.fossilType)) |-> LabelObj(ModelOf(w.currentModel), i)]

\* a step in which loadFossil installed a freshly built model
LoadStep == currentModel' # currentModel

---------------------------------------------------------------------------
(* Properties *)

\* C1: after every load of a known specimen the global label registry holds exactly
\* as many entries as the factory of the loaded specimen registered, each of them a
\* label of the model just built and none a label of an earlier model.
C1_RegistrySizeAfterLoad ==
    [][LoadStep =>
        /\ Len(labels') = Len(PartsOf(fossilType'))
        /\ \A i \in 1..Len(labels') :
              /\ ModelOf(labels'[i]) = ModelOf(currentModel')
              /\ ModelOf(labels'[i]) # ModelOf(currentModel)
        /\ \A i, j \in 1..Len(labels') : labels'[i] = labels'[j] => i = j]_vars

\* a swap from the initial fusuline (8 labels) to the diatom (4 labels) has happened
C1_Witness ==
    /\ fossilType = "diatom"
    /\ Len(labels) = 4
    /\ labelOps = {}

\* C2: immediately after a load the component names are pairwise distinct and, for
\* every component, the subtree's visible flag equals component.visible and every
\* label bound to it is displayed iff component.visible, whatever was toggled before.
C2_ConsistentAfterLoad ==
    [][LoadStep =>
        /\ NamesDistinct(CurrentComponents(WorldPrime))
        /\ Len(CurrentComponents(WorldPrime)) = Len(PartsOf(fossilType'))
        /\ Len(toggles') = Len(CurrentComponents(WorldPrime))
        /\ AllConsistent(WorldPrime)]_vars

\* the conodont (createCusp nests createWhiteMatter) has been loaded after the
\* initial fusuline, all of its six components visible with their labels shown
C2_Witness ==
    /\ fossilType = "conodont"
    /\ Len(CurrentComponents(World)) = 6
    /\ \A i \in 1..Len(CurrentComponents(World)) :
          /\ CurrentComponents(World)[i].visible
          /\ \A k \in 1..Len(CurrentComponents(World)[i].labels) :
                elements[CurrentComponents(World)[i].labels[k]].display = ""

C4_Original ==
    [][CheckForOrphanedLabels =>
        /\ LabelsBelow(WorldPrime, Scene) = {}
        /\ AttachedLabels(WorldPrime) = {}
        /\ labels' = <<>>]_vars

C6_Original ==
    [][LoadUnknown =>
        UNCHANGED <<currentModel, objects, elements, components, labels, toggles,
                    fossilInfo, crossSectionEnabled, clippingPlanes>>]_vars

\* C7: in every reachable state a second removeAllLabels right after a first one
\* changes nothing: not the labels in the scene, not the attached overlay elements,
\* not the registry, nor any other part of the state.
C7_TeardownIdempotent ==
    LET once == removeAllLabels(World)
        twice == removeAllLabels(once)
    IN  /\ twice = once
        /\ Cardinality(LabelsBelow(twice, Scene)) = Cardinality(LabelsBelow(once, Scene))
        /\ Cardinality(AttachedLabels(twice)) = Cardinality(AttachedLabels(once))
        /\ Len(twice.labels) = Len(once.labels)

\* a teardown has run on a loaded specimen whose overlay elements were attached, and
\* a frame has attached them again: the next pair of teardowns has work to do
C7_Witness ==
    /\ "check" \in labelOps
    /\ labels = <<>>
    /\ AttachedLabels(World) # {}
    /\ removeAllLabels(World) # World

\* C8 as stated: after toggle(c, v), for a component held as a mesh, as a group or
\* as neither, c.visible = v, the subtree's visible flag = v and every label bound
\* to c is displayed iff v.
C8_Original ==
    [][\A i \in 1..Len(toggles) :
          (Len(toggles') = Len(toggles) /\ toggles'[i].checked # toggles[i].checked) =>
             LET c == ComponentAt(WorldPrime, toggles'[i].component)
             IN  /\ c.visible = toggles'[i].checked
                 /\ ComponentConsistent(WorldPrime, c)]_vars

\* the checkbox of component i switched off and on again
OffOn(w, i) == CheckboxChange(CheckboxChange(w, i), i)

C10_FrameSeesWholeSpecimen ==
    [][(Frame /\ "check" \notin labelOps) =>
        /\ currentModel # Null
        /\ objects[currentModel].parent = Scene
        /\ labels = FactoryLabels(World)
        /\ \A i \in 1..Len(labels) :
              /\ labels[i] \in Dom(elements)
              /\ labels[i] \in Dom(objects)
              /\ objects[labels[i]].parent = currentModel
        /\ labels' = labels]_vars

\* a frame has updated every label of a specimen that was swapped in
C10_Witness ==
    /\ "check" \notin labelOps
    /\ fossilType = "ostracod"
    /\ Len(labels) = 6
    /\ \A i \in 1..Len(labels) : elements[labels[i]].opacity # ""

\* position of a call in a call list
CallIndex(calls, call) == CHOOSE i \in 1..Len(calls) : calls[i] = call

\* the program state and the locals of loadFossil when its switch is reached
BeforeSwitch(w, type, m) ==
    loadFossilRun(loadFossilEntry(w),
                  SubSeq(loadFossilCalls, 1, CallIndex(loadFossilCalls, "switch") - 1),
                  type, m)

C12_Original == [][~LoadStep => labels' = labels]_vars

\* C13: for every whole distance d up to MaxDistance, updateLabels leaves every label
\* of the list it is given with opacity 0.3 if d > 10 and 1 if d <= 10; a label at
\* 15 gets 0.3, a label at 5 gets 1 and a label at exactly 10 gets 1.
C13_OpacityByDistance ==
    \A d \in 0..MaxDistance :
        \A after \in {updateLabels(World, labels, d)} :
            \A i \in 1..Len(labels) :
                /\ d > 10 => after.elements[labels[i]].opacity = "0.3"
                /\ d <= 10 => after.elements[labels[i]].opacity = "1"
                /\ d = 15 => after.elements[labels[i]].opacity = "0.3"
                /\ d = 5 => after.elements[labels[i]].opacity = "1"
                /\ d = 10 => after.elements[labels[i]].opacity = "1"

\* a frame with the camera far away has dimmed the three labels of the model, and a
\* frame at the threshold distance would bring them back to full opacity
C13_Witness ==
    /\ fossilType = "shapes"
    /\ Len(labels) = 3
    /\ \A i \in 1..Len(labels) : elements[labels[i]].opacity = "0.3"
    /\ \A i \in 1..Len(labels) :
          updateLabels(World, labels, 10).elements[labels[i]].opacity = "1"

\* the registry entry has both its 3D object and its overlay element
Healthy(w, l) == l \in Dom(w.objects) /\ l \in Dom(w.elements)

\* C14 as stated: whatever entries of the list lack their object or their element,
\* one call of updateLabels gives every other label of the list, before and after
\* the failing ones, the opacity that belongs to its distance.
C14_Original ==
    \A d \in Distances :
        \A after \in {updateLabels(World, labels, d)} :
            \A i \in 1..Len(labels) :
                Healthy(World, labels[i]) => after.elements[labels[i]].opacity = OpacityAt(d)

\* C15 as stated: the numbers the orphan check reports (what it logs, then what it
\* returns) are the three counts of the state it was called in: the labels attached
\* below the scene, the attached overlay elements and the registry entries.
C15_Original ==
    checkForOrphanedLabelsLogged(World) \o <<checkForOrphanedLabelsReturn(World)>>
        = << Cardinality(LabelsBelow(World, Scene)),
             Cardinality(AttachedLabels(World)),
             Len(labels) >>

\* a step in which updateFossilInfo was given another document than the last time
RenderStep == lastInfo' # lastInfo

\* the canonical document: title, Overview paragraph, "Key Features" with its list,
\* "Taxonomy & Classification" with its body, trailing citation
CanonicalDocument == Compose(TRUE, TRUE, << "features", "taxonomy" >>, TRUE)

\* position of an element in a document, 0 if it does not occur
IndexOf(doc, e) == FirstIndex({k \in 1..Len(doc) : doc[k] = e})

\* the ids of the rendered sections, in tab order
TabIds(panel) == [i \in 1..Len(panel.tabs) |-> panel.tabs[i].id]

\* C16: rendering the canonical document yields exactly the three sections Overview,
\* Features, Taxonomy in this order, as tabs and as content panels; the Taxonomy
\* content ends with the citation, there is no Source section, and the Overview tab
\* and its content are the active ones.
C16_CanonicalSections ==
    [][(RenderStep /\ lastInfo' = CanonicalDocument) =>
        /\ fossilInfo'.tabbed
        /\ TabIds(fossilInfo') = << "overview", "features", "taxonomy" >>
        /\ [i \in 1..Len(fossilInfo'.tabs) |-> fossilInfo'.tabs[i].title]
              = << "Overview", "Features", "Taxonomy" >>
        /\ [i \in 1..Len(fossilInfo'.contents) |-> fossilInfo'.contents[i].id]
              = << "overview", "features", "taxonomy" >>
        /\ fossilInfo'.contents[1].content = << Paragraph("overview") >>
        /\ fossilInfo'.contents[2].content = << Heading("Key Features:"), List("3 items") >>
        /\ SubSeq(fossilInfo'.contents[3].content, 1, 2)
              = << Heading("Taxonomy & Classification:"), Paragraph("taxonomy") >>
        /\ fossilInfo'.contents[3].content[Len(fossilInfo'.contents[3].content)]
              = EmOf(Citation("source"))
        /\ \A i \in 1..Len(fossilInfo'.tabs) :
              /\ fossilInfo'.tabs[i].active <=> i = 1
              /\ fossilInfo'.contents[i].active <=> i = 1]_vars

\* the canonical document is shown with its three tabs, Overview active
C16_Witness ==
    /\ lastInfo = CanonicalDocument
    /\ fossilInfo.tabbed
    /\ Len(fossilInfo.tabs) = 3
    /\ fossilInfo.tabs[1].active
    /\ fossilInfo.contents[1].active

\* C17: a document whose trimmed length is below 50 characters, or that has no
\* <h3> title marker, is not segmented: #fossil-info holds the document as given,
\* with no tab and no tab content.
C17_ShortOrUntitledVerbatim ==
    [][(RenderStep
          /\ (TrimmedLength(lastInfo') < 50
                \/ \A i \in 1..Len(lastInfo') : lastInfo'[i].tag # "H3")) =>
        /\ ~fossilInfo'.tabbed
        /\ fossilInfo'.verbatim = lastInfo'
        /\ fossilInfo'.title = <<>>
        /\ fossilInfo'.tabs = <<>>
        /\ fossilInfo'.contents = <<>>]_vars

\* a document of full length that has headings and a citation but no title is shown
\* as given
C17_Witness ==
    /\ TrimmedLength(lastInfo) >= 50
    /\ \A i \in 1..Len(lastInfo) : lastInfo[i].tag # "H3"
    /\ \E i \in 1..Len(lastInfo) : lastInfo[i].tag = "H4"
    /\ ~fossilInfo.tabbed
    /\ fossilInfo.verbatim = lastInfo

\* C18 as stated: whenever a document is segmented, the tabs and the content panels
\* list the sections in the order in which their first elements (the Overview
\* paragraph, the headings) occur in the document.
C18_Original ==
    fossilInfo.tabbed =>
        /\ TabIds(fossilInfo)
              = [i \in 1..Len(fossilInfo.contents) |-> fossilInfo.contents[i].id]
        /\ \A i, j \in 1..Len(fossilInfo.contents) :
              (i < j /\ fossilInfo.contents[j].id # "source") =>
                 IndexOf(lastInfo, fossilInfo.contents[i].content[1])
                    < IndexOf(lastInfo, fossilInfo.contents[j].content[1])

\* the heading at position k of the document is one of the recognized headings
Recognized(doc, k) ==
    /\ doc[k].tag = "H4"
    /\ \E phrase \in {"Key Features", "Geological Significance", "Taxonomy"} :
          Includes(doc[k].text, phrase)

\* C19 as stated: the content of the section of a recognized heading is that heading
\* and every following element up to, not including, the next recognized heading
\* (followed by the citation where one is appended), and every element after the
\* Overview paragraph, the citation aside, is in the content of exactly one section.
C19_Original ==
    (fossilInfo.tabbed /\ QueryH3PlusP(lastInfo) # 0) =>
        /\ \A i \in 1..Len(fossilInfo.contents) :
              fossilInfo.contents[i].id \in {"features", "significance", "taxonomy"} =>
                 LET h == IndexOf(lastInfo, fossilInfo.contents[i].content[1])
                     next == FirstIndex({k \in (h + 1)..Len(lastInfo) :
                                            Recognized(lastInfo, k)})
                     body == SubSeq(lastInfo, h, IF next = 0 THEN Len(lastInfo) ELSE next - 1)
                 IN  SubSeq(fossilInfo.contents[i].content, 1, Len(body)) = body
        /\ \A k \in (QueryH3PlusP(lastInfo) + 1)..Len(lastInfo) :
              lastInfo[k].em = "" =>
                 Cardinality({i \in 1..Len(fossilInfo.contents) :
                                 IndexOf(fossilInfo.contents[i].content, lastInfo[k]) # 0}) = 1

\* C20 as stated: whenever a document with a citation is segmented, the citation is
\* the end of the Taxonomy section's content if there is a Taxonomy section (and
\* there is no Source section); otherwise the last section is a Source section that
\* holds the citation, also when there is no other section.
C20_Original ==
    (fossilInfo.tabbed /\ QueryEm(lastInfo) # 0) =>
        LET contents == fossilInfo.contents
            cite == EmOf(lastInfo[QueryEm(lastInfo)])
        IN  IF \E i \in 1..Len(contents) : contents[i].id = "taxonomy"
            THEN /\ \A i \in 1..Len(contents) :
                       /\ contents[i].id # "source"
                       /\ contents[i].id = "taxonomy" =>
                             contents[i].content[Len(contents[i].content)] = cite
            ELSE /\ Len(contents) > 0
                 /\ contents[Len(contents)].id = "source"
                 /\ contents[Len(contents)].content = << cite >>
                 /\ TabIds(fossilInfo)[Len(contents)] = "source"

\* C21 as stated: whenever a document is segmented (at least 50 characters, with the
\* title marker), there is at least one section, the first one is Overview, and its
\* tab and content panel are the only active ones.
C21_Original ==
    [][(RenderStep /\ TrimmedLength(lastInfo') >= 50
                   /\ \E k \in 1..Len(lastInfo') : lastInfo'[k].tag = "H3") =>
            /\ Len(fossilInfo'.tabs) > 0
            /\ fossilInfo'.tabs[1].id = "overview"
            /\ fossilInfo'.contents[1].id = "overview"
            /\ \A i \in 1..Len(fossilInfo'.tabs) :
                  /\ fossilInfo'.tabs[i].active <=> i = 1
                  /\ fossilInfo'.contents[i].active <=> i = 1]_vars

\* the indices of the active tabs and of the active content panels
ActiveTabs(panel) == {i \in 1..Len(panel.tabs) : panel.tabs[i].active}
ActiveContents(panel) == {i \in 1..Len(panel.contents) : panel.contents[i].active}

\* the sections a panel shows: ids, titles and contents, in order
ShownSections(panel) ==
    [i \in 1..Len(panel.tabs) |->
        Section(panel.tabs[i].id, panel.tabs[i].title, panel.contents[i].content)]

\* C22: in every state of a tabbed description with at least one tab, whatever was
\* clicked before, exactly one tab and exactly one content panel are active and they
\* belong to the same section; a click on tab i leaves tab i and its content panel as
\* the only active ones; the sections (ids, titles, contents, order) stay those that
\* the last rendering of the document produced.
C22_OneActiveTab ==
    (fossilInfo.tabbed /\ Len(fossilInfo.tabs) > 0) =>
        /\ Cardinality(ActiveTabs(fossilInfo)) = 1
        /\ ActiveContents(fossilInfo) = ActiveTabs(fossilInfo)
        /\ Len(fossilInfo.contents) = Len(fossilInfo.tabs)
        /\ ShownSections(fossilInfo) = Sections(lastInfo)
        /\ \A i \in 1..Len(fossilInfo.tabs) :
              \A after \in {TabClick(World, i).fossilInfo} :
                  /\ ActiveTabs(after) = {i}
                  /\ ActiveContents(after) = {i}
                  /\ ShownSections(after) = ShownSections(fossilInfo)
                  /\ after.title = fossilInfo.title

\* the last tab of a description with four sections has been clicked
C22_Witness ==
    /\ fossilInfo.tabbed
    /\ Len(fossilInfo.tabs) = 4
    /\ ActiveTabs(fossilInfo) = {4}
    /\ ActiveContents(fossilInfo) = {4}


---------------------------------------------------------------------------
(* The component list of a model group while factory functions fill it *)

\* at most this many components are pushed on the list of one group
MaxRegistered == 3

\* the components the create functions may store: few names, so that one recurs
RegisteredParts ==
    {Part(name, kind) : name \in {"shell", "septa", "aperture"}, kind \in {"mesh", "group"}}

\* createFusulineModel up to group.userData.components = []
GroupCreated == NewGroup(Pristine, CHOOSE m \in FreeModels(Pristine) : TRUE)

InitRegistry ==
    /\ Holds(GroupCreated)
    /\ labelOps = {}
    /\ lastInfo = <<>>

\* the group under construction, the only one with a component list
BuiltModel == CHOOSE m \in Dom(components) : TRUE

\* one create function of a factory run on the group: createShell(group), ...
Register ==
    \E part \in RegisteredParts :
        /\ Len(components[BuiltModel]) < MaxRegistered
        /\ Becomes(createPart(World, BuiltModel, Len(components[BuiltModel]) + 1, part))
        /\ UNCHANGED <<labelOps, lastInfo>>

NextRegistry == Register

SpecRegistry == InitRegistry /\ [][NextRegistry]_vars

\* C23: registering a component whose name is already in the list of the specimen
\* leaves the list unchanged, and registering a new name appends it at the end: every
\* registration either keeps the list or extends it by one component whose name none
\* of the earlier components has.
C23_Original ==
    [][\A before \in {components[BuiltModel]} : \A after \in {components'[BuiltModel]} :
          \/ after = before
          \/ /\ Len(after) = Len(before) + 1
             /\ SubSeq(after, 1, Len(before)) = before
             /\ \A k \in 1..Len(before) : before[k].name # after[Len(after)].name]_vars


\* the mesh or group a component record refers to (Null when it has neither)
SubtreeOf(c) == IF c.mesh # Null THEN c.mesh ELSE c.group

ComponentLabels(w) ==
    UNION {Range(CurrentComponents(w)[i].labels) : i \in 1..Len(CurrentComponents(w))}

\* C25: in every reachable state the labels in the global registry, the label objects
\* in the 3D subtree of the current specimen and the labels in the label lists of its
\* components are the same set; each label is in the registry once and in the list
\* of exactly one component.
C25_Original ==
    /\ Range(labels) = LabelsBelow(World, currentModel)
    /\ Range(labels) = ComponentLabels(World)
    /\ \A i, j \in 1..Len(labels) : labels[i] = labels[j] => i = j
    /\ \A l \in Range(labels) :
          Cardinality({i \in 1..Len(CurrentComponents(World)) :
                          l \in Range(CurrentComponents(World)[i].labels)}) = 1


\* C26: toggleComponentVisibility(c, v) changes component c only: for every other
\* component d of the loaded specimen, d's record (its visible flag), the visible flag
\* of d's mesh or group and the display of d's labels stay as they were, and so do
\* the registry, every label's opacity, the cross-section state and the current model.
C26_ToggleChangesOneComponent ==
    \A i \in 1..Len(toggles) : \A v \in BOOLEAN :
        \A c \in {toggles[i].component} :
            \A after \in {toggleComponentVisibility(World, c, v)} :
                /\ after.labels = labels
                /\ after.currentModel = currentModel
                /\ after.crossSectionEnabled = crossSectionEnabled
                /\ after.clippingPlanes = clippingPlanes
                /\ Dom(after.elements) = Dom(elements)
                /\ \A l \in Dom(elements) : after.elements[l].opacity = elements[l].opacity
                /\ Len(after.components[c[1]]) = Len(components[c[1]])
                /\ \A j \in 1..Len(components[c[1]]) :
                      j # c[2] =>
                        \A d \in {components[c[1]][j]} :
                            /\ after.components[c[1]][j] = d
                            /\ SubtreeOf(d) # Null =>
                                 after.objects[SubtreeOf(d)] = objects[SubtreeOf(d)]
                            /\ \A k \in 1..Len(d.labels) :
                                  after.elements[d.labels[k]] = elements[d.labels[k]]

\* the first component is switched off under an active cross-section while the second
\* is shown with its label, and a frame has dimmed the labels
C26_Witness ==
    /\ Len(toggles) >= 2
    /\ ~CurrentComponents(World)[1].visible
    /\ CurrentComponents(World)[2].visible
    /\ Displayed(World, CurrentComponents(World)[2].labels[1])
    /\ ~Displayed(World, CurrentComponents(World)[1].labels[1])
    /\ elements[CurrentComponents(World)[2].labels[1]].opacity = "0.3"
    /\ crossSectionEnabled


\* world w with the opacity of every overlay element replaced by the one it has in v
WithOpacityOf(w, v) ==
    [w EXCEPT !.elements =
        [l \in Dom(w.elements) |->
            IF l \in Dom(v.elements)
            THEN [w.elements[l] EXCEPT !.opacity = v.elements[l].opacity]
            ELSE w.elements[l]]]

\* C27: the per-frame label update changes the opacity of overlay elements and
\* nothing else: display states, component records, the visible flags of the
\* subtrees, the registry with its order and the current model stay as they were;
\* the frame that calls it keeps registry, components, objects and current model too,
\* and a frame that finds the registry empty leaves every opacity as it was.
C27_FrameChangesOpacityOnly ==
    \A distance \in Distances :
        /\ \A after \in {updateLabels(World, labels, distance)} :
              WithOpacityOf(after, World) = World
        /\ \A after \in {animate(World, distance)} :
              /\ after.labels = labels
              /\ after.components = components
              /\ after.objects = objects
              /\ after.currentModel = currentModel
              /\ Dom(after.elements) = Dom(elements)
              /\ labels = <<>> =>
                    \A l \in Dom(elements) : after.elements[l].opacity = elements[l].opacity

\* a frame with the camera far away has dimmed the registered labels, one of them
\* hidden by its component's checkbox
C27_Witness ==
    /\ Len(labels) = 3
    /\ \A i \in 1..3 : elements[labels[i]].opacity = "0.3" /\ elements[labels[i]].attached
    /\ elements[labels[1]].display = "none"
    /\ elements[labels[2]].display = "block"


\* C28: in every state reached from the initial load by loads and cross-section
\* toggles (and the other operations) the renderer has a clipping plane iff
\* crossSectionEnabled; two consecutive toggleCrossSection calls give the state back;
\* and a load of any specimen leaves the flag false and no clipping plane.
C28_PlaneIffCrossSection ==
    /\ clippingPlanes # <<>> <=> crossSectionEnabled
    /\ Len(clippingPlanes) <= 1
    /\ toggleCrossSection(World).crossSectionEnabled = ~crossSectionEnabled
    /\ toggleCrossSection(World).clippingPlanes # <<>> <=> ~crossSectionEnabled
    /\ toggleCrossSection(toggleCrossSection(World)) = World
    /\ FreeModels(World) # {} =>
          \A type \in KnownTypes :
              \A after \in {loadFossil(World, type, CHOOSE m \in FreeModels(World) : TRUE)} :
                  ~after.crossSectionEnabled /\ after.clippingPlanes = <<>>

\* the cross-section is switched on for a specimen loaded after the initial one
C28_Witness ==
    /\ crossSectionEnabled
    /\ clippingPlanes = <<"y">>
    /\ ModelOf(currentModel) # 1
    /\ fossilType = "diatom"


\* C29: after every load, and from then on, the component checkboxes are exactly one
\* per component of the loaded specimen, in the order of its component list, each
\* bound to its component and checked iff component.visible; no checkbox is bound to
\* a component of a specimen that is no longer loaded.
C29_TogglesOfCurrentSpecimen ==
    /\ [](/\ Len(toggles) = Len(CurrentComponents(World))
          /\ \A i \in 1..Len(toggles) :
                /\ toggles[i].component = <<ModelOf(currentModel), i>>
                /\ toggles[i].checked <=> CurrentComponents(World)[i].visible)
    /\ [][LoadStep =>
            /\ Len(toggles') = Len(PartsOf(fossilType'))
            /\ \A i \in 1..Len(toggles') :
                  /\ toggles'[i].component[1] = ModelOf(currentModel')
                  /\ toggles'[i].component[1] # ModelOf(currentModel)
                  /\ components'[ModelOf(currentModel')][i].name = PartsOf(fossilType')[i].name
                  /\ toggles'[i].checked]_vars

\* the radiolarian replaced an earlier specimen and its first checkbox was cleared
C29_Witness ==
    /\ fossilType = "radiolarian"
    /\ ModelOf(currentModel) # 1
    /\ Len(toggles) = 4
    /\ ~toggles[1].checked
    /\ ~CurrentComponents(World)[1].visible
    /\ toggles[2].checked


\* the places of the rendered panel, <<section, element>>, that show the source text
Occurrences(panel, text) ==
    {p \in UNION {{<<i, k>> : k \in 1..Len(panel.contents[i].content)} :
                     i \in 1..Len(panel.contents)} :
        panel.contents[p[1]].content[p[2]].em = text}

\* C30: when the rendered document has a Taxonomy section and ends with a citation,
\* the citation text occurs exactly once in the rendered output, in the content of
\* the Taxonomy section and in no other section.
C30_Original ==
    (/\ fossilInfo.tabbed
     /\ Len(lastInfo) > 0
     /\ lastInfo[Len(lastInfo)].em # ""
     /\ FindH4(lastInfo, "Taxonomy") # 0) =>
        \A cited \in {lastInfo[Len(lastInfo)].em} :
            /\ Cardinality(Occurrences(fossilInfo, cited)) = 1
            /\ \A p \in Occurrences(fossilInfo, cited) :
                  fossilInfo.contents[p[1]].id = "taxonomy"

============================================================================
